---- MODULE Spec2Model ----
(***************************************************************************)
(* Model of the zdtun engine (src/zdtun.c): the 5-tuple connection table,  *)
(* the per-protocol forwarders, the readiness dispatcher and the purger.   *)
(* Every public operation is one atomic action (the engine is single       *)
(* threaded and never suspends); the results of the system calls and of    *)
(* the user callbacks an operation makes are its inputs.                   *)
(***************************************************************************)
EXTENDS Integers, Sequences, FiniteSets, TLC

VARIABLES
  conn_table,              \* tun->conn_table, in HASH_ITER order
  num_open_socks,          \* tun->num_open_socks
  num_active_connections,  \* tun->num_active_connections
  all_fds,                 \* tun->all_fds
  tcp_connecting,          \* tun->tcp_connecting
  clock,                   \* value of time(NULL)
  fault,                   \* "none", or why the running operation never returned
  finalized,               \* TRUE once ztdun_finalize freed the engine
  world,                   \* the clients of this run: "flows", "stream", "pair"
  removed,                 \* ghost: summaries of the records the last operation destroyed
  purged_at                \* ghost: the "now" of the purge that ran last, else -1

vars == <<conn_table, num_open_socks, num_active_connections, all_fds,
          tcp_connecting, clock, fault, finalized, world, removed,
          purged_at>>

----------------------------------------------------------------------------
(* Bounds of the model *)

\* sockets the OS can hand out are 1..MaxFd
MaxFd == 3
\* send_client results are given for the first MaxSend calls of an operation;
\* later calls of the same operation repeat the last one
MaxSend == 2
\* the clock advances in steps of TimeStep up to MaxTime
TimeStep == 30
MaxTime == 30
\* records the table holds at a time when several flows are open
MaxConns == 2
\* bytes a server delivers, and a client sends, over the one connection of a
\* "stream" run; a connection of a "flows" run carries one segment each way
MaxServerBytes == 4
MaxClientBytes == 2
\* bytes a server delivers over each of the two connections of a "pair" run
PairBytes == 2
\* records in the table when a purge is run on a crowded table, and the
\* seconds over which their first packets were forwarded
CrowdConns == 3
CrowdTime == 2
\* how far num_open_socks may fall behind the sockets that are open
MaxDrift == 1
\* the socket ceiling, scaled down from 128 (the ICMP socket counts as one)
MAX_NUM_SOCKETS == 2

----------------------------------------------------------------------------
(* Program constants *)

TCP_WINDOW_SIZE == 64240
ICMP_TIMEOUT_SEC == 5
UDP_TIMEOUT_SEC == 15
TCP_TIMEOUT_SEC == 30
\* 96 for 128: three quarters of the ceiling
NUM_SOCKETS_AFTER_PURGE == (MAX_NUM_SOCKETS * 3) \div 4
INVALID_SOCKET == 0 - 1
U16 == 65536

\* A 32-bit unsigned value is kept as its two 16-bit halves (TLC's
\* integers are 32-bit signed); the operators below are arithmetic modulo 2^32
W32(hi, lo) == [hi |-> hi, lo |-> lo]
Zero32 == W32(0, 0)
\* a + n for 0 <= n < 2^30
Add32(a, n) ==
  LET l == a.lo + (n % U16)
  IN W32((a.hi + (n \div U16) + (l \div U16)) % U16, l % U16)
\* a - b
Sub32(a, b) ==
  LET borrow == IF a.lo < b.lo THEN 1 ELSE 0
  IN W32((a.hi - b.hi - borrow + 2 * U16) % U16, (a.lo - b.lo + U16) % U16)
Ge32(a, b) == a.hi > b.hi \/ (a.hi = b.hi /\ a.lo >= b.lo)

\* 0x77EB77EB
INITIAL_SEQ == W32(30699, 30699)

Fds == 1..MaxFd
\* the raw socket opened by zdtun_init: the first descriptor handed out
icmp_socket == CHOOSE f \in Fds : \A g \in Fds : f <= g

Tuples == {"T1", "T2", "U1", "I1"}
ipproto(t) == CASE t \in {"T1", "T2"} -> "TCP" [] t = "U1" -> "UDP" [] OTHER -> "ICMP"
\* the UDP tuple is a DNS flow
dst_port(t) == IF t = "U1" THEN 53 ELSE 80

\* the outcome "abort" of an undefined operation (a double free, a bitmap
\* index of -1), among the descriptors that name the bit it hits instead
UB_ABORT == 0 - 2

NoPending == [size |-> 0, sofar |-> 0, set |-> FALSE]
\* no segment emitted yet
NoSeq == W32(0 - 1, 0 - 1)

\* mutation: the first operand, whatever the second
Min_first(a, b) == a

Min(a, b) == IF a < b THEN a ELSE b

\* statement sequencing: Run([x \in {v} |-> e]) is e with x naming the state
\* the call v leaves, that is the statements e run after v
Run(f) == f[CHOOSE x \in DOMAIN f : TRUE]

----------------------------------------------------------------------------
(* The working state of an operation: the engine's fields, the packets     *)
(* emitted so far, the status changes made so far (edges), the bytes       *)
(* written to a TCP server socket so far (wr), the operation's inputs (in) *)
(* and its return value (rv).                                              *)

EngineState(in) ==
  [tab |-> conn_table, nos |-> num_open_socks, nac |-> num_active_connections,
   all_fds |-> all_fds, tcp_connecting |-> tcp_connecting,
   removed |-> {}, out |-> <<>>, edges |-> {}, wr |-> 0, k |-> 1,
   fault |-> "none", rv |-> 0, now |-> clock, in |-> in]

Has(tab, t) == \E i \in 1..Len(tab) : tab[i].tuple = t
Idx(tab, t) == CHOOSE i \in 1..Len(tab) : tab[i].tuple = t
Conn(s, t) == s.tab[Idx(s.tab, t)]
Remove(tab, t) == SelectSeq(tab, LAMBDA c : c.tuple # t)

\* conn->status = to; edges keeps the assignments that change the status
SetStatus(s, t, to) ==
  [s EXCEPT !.tab[Idx(s.tab, t)].status = to,
            !.edges = IF Conn(s, t).status = to THEN @
                      ELSE @ \cup {[t |-> t, from |-> Conn(s, t).status, to |-> to]}]

\* the result of the k-th send_client call of the operation
SendRv(s) == IF s.k <= MaxSend THEN s.in.sc[s.k] ELSE s.in.sc[MaxSend]

\* FD_SET / FD_CLR with a descriptor of -1 index outside the bitmap: they
\* abort, or hit a bit the build chooses (in.ub), which shows when it is the
\* bit of another connection's socket
Stray(s) == IF \E i \in 1..Len(s.tab) : s.tab[i].sock = s.in.ub /\ s.in.ub # INVALID_SOCKET
            THEN {s.in.ub} ELSE {}
FdSetBit(s, set, fd) == IF fd # INVALID_SOCKET THEN set \cup {fd} ELSE set \cup Stray(s)
FdClrBit(s, set, fd) == IF fd # INVALID_SOCKET THEN set \ {fd} ELSE set \ Stray(s)

\* mutation: the socket is released but the record keeps naming it
finalize_zdtun_sock_keeps_sock(s, t) ==
  LET c == Conn(s, t) IN
  [s EXCEPT !.all_fds = FdClrBit(s, s.all_fds, c.sock),
            !.tcp_connecting = FdClrBit(s, s.tcp_connecting, c.sock),
            !.nos = s.nos - 1]

finalize_zdtun_sock(s, t) ==
  LET c == Conn(s, t) IN
  IF c.sock = INVALID_SOCKET /\ s.in.ub = UB_ABORT
  THEN [s EXCEPT !.fault = "abort"]
  ELSE [s EXCEPT !.all_fds = FdClrBit(s, s.all_fds, c.sock),
                 !.tcp_connecting = FdClrBit(s, s.tcp_connecting, c.sock),
                 !.nos = s.nos - 1,
                 !.tab[Idx(s.tab, t)].sock = INVALID_SOCKET]

\* build_tcp_ip_header: the segment the header describes
build_tcp_ip_header(c, flags, l4_len) ==
  [t |-> c.tuple, flags |-> flags, seq |-> c.zdtun_seq,
   ack |-> IF "ACK" \in flags THEN c.client_seq ELSE Zero32, len |-> l4_len]

RECURSIVE close_conn(_, _)

\* the history of t's record once pkt is handed to send_client: the sequence
\* number of the last TCP segment, the number of SYN+ACK segments
Emitted(s, t, pkt) ==
  IF ipproto(t) # "TCP" THEN s
  ELSE [s EXCEPT !.tab[Idx(s.tab, t)].last_seq = pkt.seq,
                 !.tab[Idx(s.tab, t)].nSynAck =
                    IF pkt.flags = {"SYN", "ACK"} THEN @ + 1 ELSE @]

\* mutation: the result of send_client is returned but not acted on
send_to_client_ignores_rv(s, t, pkt) ==
  LET rv == SendRv(s) IN
  [Emitted(s, t, pkt) EXCEPT !.out = Append(s.out, [pkt |-> pkt, rv |-> rv]),
            !.k = s.k + 1, !.rv = rv,
            !.tab[Idx(s.tab, t)].failed = (@ \/ rv # 0)]

\* send_to_client: hand pkt to send_client; a nonzero result closes the
\* connection. The result is left in rv.
send_to_client(s, t, pkt) ==
  LET rv == SendRv(s)
      s1 == [Emitted(s, t, pkt) EXCEPT
               !.out = Append(s.out, [pkt |-> pkt, rv |-> rv]),
               !.k = s.k + 1, !.rv = rv]
  IN IF rv = 0 THEN s1
     ELSE [close_conn([s1 EXCEPT !.tab[Idx(s.tab, t)].failed = TRUE], t)
             EXCEPT !.rv = rv]

close_conn(s, t) ==
  LET c == Conn(s, t) IN
  IF s.fault # "none" \/ c.status = "CLOSED" THEN s
  ELSE
    LET i == Idx(s.tab, t)
        rst == ipproto(t) = "TCP" /\ ~c.fin_ack_sent
        \* every send_client call still to come fails: the recursion through
        \* send_to_client never ends
        endless == rst /\ s.k > MaxSend /\ SendRv(s) # 0
    IN Run([s1 \in {IF c.sock # INVALID_SOCKET THEN finalize_zdtun_sock(s, t) ELSE s} |->
         LET s2 == [s1 EXCEPT !.tab[i].pending = NoPending] IN
         IF endless THEN [s2 EXCEPT !.fault = "stack_overflow"]
         ELSE Run([s3 \in {IF rst
                   THEN send_to_client(
                          [s2 EXCEPT !.tab[i].nRst = c.nRst + 1], t,
                          build_tcp_ip_header(s2.tab[i], {"RST", "ACK"}, 0))
                   ELSE s2} |->
                IF s3.fault # "none" THEN s3
                ELSE [SetStatus(s3, t, "CLOSED") EXCEPT
                                !.tab[i].nClose = @ + 1,
                                !.tab[i].at_close = [seq |-> s3.tab[i].zdtun_seq,
                                                     win |-> s3.tab[i].window_size]]])])

\* mutation: the record is removed without the counter being decremented
zdtun_destroy_conn_keeps_count(s, t) ==
  Run([s1 \in {close_conn(s, t)} |->
  IF s1.fault # "none" THEN s1
  ELSE [s1 EXCEPT !.tab = Remove(s1.tab, t),
                  !.removed = s1.removed \cup
                     {[tuple |-> t, nClose |-> Conn(s1, t).nClose,
                       nOpen |-> Conn(s1, t).nOpen, nRst |-> Conn(s1, t).nRst]}]])

zdtun_destroy_conn(s, t) ==
  Run([s1 \in {close_conn(s, t)} |->
  IF s1.fault # "none" THEN s1
  ELSE [s1 EXCEPT !.nac = s1.nac - 1,
                  !.tab = Remove(s1.tab, t),
                  !.removed = s1.removed \cup
                     {[tuple |-> t, nClose |-> Conn(s1, t).nClose,
                       nOpen |-> Conn(s1, t).nOpen, nRst |-> Conn(s1, t).nRst]}]])

----------------------------------------------------------------------------
(* Purger *)

timeout(t) ==
  CASE ipproto(t) = "TCP" -> TCP_TIMEOUT_SEC
    [] ipproto(t) = "UDP" -> UDP_TIMEOUT_SEC
    [] OTHER -> ICMP_TIMEOUT_SEC

\* mutation: closed records are not harvested
Expired_idle_only(c, now) == now >= timeout(c.tuple) + c.tstamp

Expired(c, now) == c.status = "CLOSED" \/ now >= timeout(c.tuple) + c.tstamp

\* the idleness pass over the records order[i..]
RECURSIVE PurgeIdle(_, _, _, _)
PurgeIdle(s, order, i, now) ==
  IF i > Len(order) \/ s.fault # "none" THEN s
  ELSE LET t == order[i].tuple
           s1 == IF Expired(Conn(s, t), now) THEN zdtun_destroy_conn(s, t) ELSE s
       IN PurgeIdle(s1, order, i + 1, now)

\* HASH_SORT by zdtun_conn_cmp_timestamp_asc (a stable merge sort)
RECURSIVE SortByTstamp(_)
SortByTstamp(tab) ==
  IF Len(tab) <= 1 THEN tab
  ELSE LET m == CHOOSE i \in 1..Len(tab) :
                  /\ \A j \in 1..Len(tab) : tab[i].tstamp <= tab[j].tstamp
                  /\ \A j \in 1..(i - 1) : tab[j].tstamp > tab[i].tstamp
       IN <<tab[m]>> \o SortByTstamp(SubSeq(tab, 1, m - 1) \o SubSeq(tab, m + 1, Len(tab)))

\* the overload pass: destroy the first to_purge records
RECURSIVE PurgeOldest(_, _)
PurgeOldest(s, to_purge) ==
  IF to_purge = 0 \/ Len(s.tab) = 0 \/ s.fault # "none" THEN s
  ELSE PurgeOldest(zdtun_destroy_conn(s, s.tab[1].tuple), to_purge - 1)

zdtun_purge_expired(s, now) ==
  Run([s1 \in {PurgeIdle(s, s.tab, 1, now)} |->
  IF s1.fault = "none" /\ s1.nos > MAX_NUM_SOCKETS
  THEN PurgeOldest([s1 EXCEPT !.tab = SortByTstamp(s1.tab)],
                   s1.nos - NUM_SOCKETS_AFTER_PURGE)
  ELSE s1])

----------------------------------------------------------------------------
(* Connection table *)

\* a record as safe_alloc and zdtun_lookup leave it. nOpen, nClose, nRst,
\* failed, last_seq and nSynAck are the history of the record: the calls of
\* on_connection_open and of on_connection_close for it, the RST segments
\* handed to send_client for it, whether send_client ever returned nonzero for
\* one of its packets, the sequence number of the last segment handed to
\* send_client, the number of SYN+ACK segments handed to it, zdtun_seq and
\* window_size as they were when close_conn set the status to CLOSED, and the
\* number of bytes recv read from the server socket (nRead)
NewConn(t, now) ==
  [tuple |-> t, tstamp |-> now, sock |-> INVALID_SOCKET, status |-> "NEW",
   client_seq |-> Zero32, zdtun_seq |-> Zero32, window_size |-> 0,
   fin_ack_sent |-> FALSE, pending |-> NoPending,
   nOpen |-> 0, nClose |-> 0, nRst |-> 0, failed |-> FALSE,
   last_seq |-> NoSeq, nSynAck |-> 0, at_close |-> [seq |-> Zero32, win |-> 0],
   nRead |-> 0]

\* mutation: the callback is not called
on_connection_open_skipped(c) == c

\* the call of the on_connection_open callback on the new record c
on_connection_open(c) == [c EXCEPT !.nOpen = c.nOpen + 1]

\* mutation: the table is not purged when the socket ceiling is reached
zdtun_lookup_no_purge(s, t, create) ==
  IF Has(s.tab, t) THEN [s EXCEPT !.rv = 1]
  ELSE IF ~create \/ s.in.open_rv # 0 THEN [s EXCEPT !.rv = 0]
  ELSE [s EXCEPT !.tab = Append(s.tab, on_connection_open(NewConn(t, s.now))),
                 !.nac = s.nac + 1, !.rv = 1]

\* mutation: the record is inserted whatever on_connection_open returns
zdtun_lookup_ignores_refusal(s, t, create) ==
  IF Has(s.tab, t) THEN [s EXCEPT !.rv = 1]
  ELSE IF ~create THEN [s EXCEPT !.rv = 0]
  ELSE Run([s1 \in {IF s.nos >= MAX_NUM_SOCKETS THEN zdtun_purge_expired(s, s.now)
                    ELSE s} |->
         IF s1.fault # "none" THEN s1
         ELSE [s1 EXCEPT !.tab = Append(s1.tab, on_connection_open(NewConn(t, s.now))),
                         !.nac = s1.nac + 1, !.rv = 1]])

\* zdtun_lookup; in.open_rv is what on_connection_open returns. rv = 1 when a
\* connection is returned, 0 when NULL is.
zdtun_lookup(s, t, create) ==
  IF Has(s.tab, t) THEN [s EXCEPT !.rv = 1]
  ELSE IF ~create THEN [s EXCEPT !.rv = 0]
  ELSE
    LET c == on_connection_open(NewConn(t, s.now))
    IN Run([s1 \in {IF s.nos >= MAX_NUM_SOCKETS THEN zdtun_purge_expired(s, s.now) ELSE s} |->
         IF s1.fault # "none" THEN s1
         ELSE IF s.in.open_rv # 0 THEN [s1 EXCEPT !.rv = 0]
         ELSE [s1 EXCEPT !.tab = Append(s1.tab, c), !.nac = s1.nac + 1, !.rv = 1]])


----------------------------------------------------------------------------
(* TCP forwarder *)

\* open_socket: the lowest descriptor not in use, or INVALID_SOCKET
open_socket(s) ==
  LET used == {icmp_socket} \cup {s.tab[i].sock : i \in 1..Len(s.tab)}
      free == Fds \ used
  IN IF s.in.sock_ok /\ free # {}
     THEN CHOOSE f \in free : \A g \in free : f <= g
     ELSE INVALID_SOCKET

tcp_socket_syn(s, t) ==
  LET i == Idx(s.tab, t)
      c == s.tab[i]
      pkt == build_tcp_ip_header(c, {"SYN", "ACK"}, 0)
      s1 == [SetStatus(s, t, "CONNECTED") EXCEPT
                      !.tcp_connecting = s.tcp_connecting \ {c.sock},
                      !.tab[i].zdtun_seq = Add32(c.zdtun_seq, 1)]
  IN send_to_client(s1, t, pkt)

\* mutation: the FIN is sent without zdtun_seq being advanced
tcp_socket_fin_ack_no_advance(s, t) ==
  send_to_client(s, t, build_tcp_ip_header(Conn(s, t), {"FIN", "ACK"}, 0))

tcp_socket_fin_ack(s, t) ==
  LET i == Idx(s.tab, t)
      c == s.tab[i]
      pkt == build_tcp_ip_header(c, {"FIN", "ACK"}, 0)
  IN send_to_client([s EXCEPT !.tab[i].zdtun_seq = Add32(c.zdtun_seq, 1)], t, pkt)

process_pending_tcp_packets(s, t) ==
  LET i == Idx(s.tab, t)
      c == s.tab[i]
  IN
  IF c.window_size = 0 \/ ~c.pending.set \/ c.sock = INVALID_SOCKET THEN s
  ELSE
    LET remaining == (c.pending.size - c.pending.sofar + U16) % U16
        to_send == Min(c.window_size, remaining)
        pkt == build_tcp_ip_header(c, {"PSH", "ACK"}, to_send)
    IN Run([s1 \in {send_to_client(s, t, pkt)} |->
       LET \* a failed send closed the connection, which freed the buffer that
           \* the local pointer still names
           freed == s1.rv # 0
           c1 == s1.tab[i]
           s2 == [s1 EXCEPT !.tab[i].zdtun_seq = Add32(c1.zdtun_seq, to_send),
                            !.tab[i].window_size = (c1.window_size - to_send + U16) % U16]
       IN IF s1.fault # "none" THEN s1
          ELSE IF remaining = to_send
          THEN IF freed /\ s.in.ub = UB_ABORT
               THEN [s2 EXCEPT !.fault = "abort"]
               ELSE [s2 EXCEPT !.tab[i].pending = NoPending,
                               !.all_fds = FdSetBit(s2, s2.all_fds, c1.sock)]
          ELSE IF freed
          THEN IF s.in.ub = UB_ABORT THEN [s2 EXCEPT !.fault = "abort"] ELSE s2
          ELSE [s2 EXCEPT !.tab[i].pending.sofar = c.pending.sofar + to_send]])

\* pkt: [flags, seq, ack, win, len] of the client's segment
handle_tcp_fwd(s, t, pkt, no_ack) ==
  LET i == Idx(s.tab, t)
      c == s.tab[i]
  IN
  IF c.status = "CONNECTING" THEN [s EXCEPT !.rv = 0]
  ELSE IF c.status = "NEW" THEN
    Run([tcp_sock \in {open_socket(s)} |->
    IF tcp_sock = INVALID_SOCKET THEN [s EXCEPT !.rv = 0 - 1]
    ELSE IF s.in.connect = "error" THEN [s EXCEPT !.rv = 0 - 1]
    ELSE
      LET s1 == [s EXCEPT !.all_fds = s.all_fds \cup {tcp_sock},
                          !.tab[i].sock = tcp_sock,
                          !.tab[i].client_seq = Add32(pkt.seq, 1),
                          !.tab[i].zdtun_seq = INITIAL_SEQ,
                          !.nos = s.nos + 1]
      IN IF s.in.connect = "ok" THEN tcp_socket_syn(s1, t)
         ELSE [SetStatus(s1, t, "CONNECTING") EXCEPT
                         !.tcp_connecting = s1.tcp_connecting \cup {tcp_sock},
                         !.rv = 0]])
  ELSE IF "RST" \in pkt.flags THEN [close_conn(s, t) EXCEPT !.rv = 0]
  ELSE IF {"FIN", "ACK"} \subseteq pkt.flags THEN
    LET s1 == [s EXCEPT !.tab[i].client_seq = Add32(c.client_seq, pkt.len + 1)]
    IN [send_to_client(s1, t, build_tcp_ip_header(s1.tab[i], {"ACK"}, 0))
          EXCEPT !.rv = 0]
  ELSE IF c.sock = INVALID_SOCKET THEN [s EXCEPT !.rv = 0]
  ELSE
    LET in_flight == Sub32(c.zdtun_seq, pkt.ack)
        \* the 32-bit difference is stored into the 16-bit window_size
        window == (Min(pkt.win, TCP_WINDOW_SIZE) - in_flight.lo + U16) % U16
    IN Run([s1 \in {IF "ACK" \in pkt.flags
            THEN process_pending_tcp_packets(
                   [s EXCEPT !.tab[i].window_size = window], t)
            ELSE s} |->
         LET c1 == s1.tab[i]
             \* send() on the server socket; it fails on a released socket
             sent == c1.sock # INVALID_SOCKET /\ s.in.send_ok
             s2 == [s1 EXCEPT !.tab[i].client_seq = Add32(c1.client_seq, pkt.len),
                              !.wr = @ + pkt.len]
         IN IF s1.fault # "none" THEN s1
            ELSE IF pkt.len > 0
            THEN IF ~sent THEN [s1 EXCEPT !.rv = 0 - 1]
                 ELSE IF ~no_ack
                 THEN send_to_client(s2, t, build_tcp_ip_header(s2.tab[i], {"ACK"}, 0))
                 ELSE [s1 EXCEPT !.wr = @ + pkt.len, !.rv = 0]
            ELSE [s1 EXCEPT !.rv = 0]])

----------------------------------------------------------------------------
(* UDP and ICMP forwarders *)

handle_udp_fwd(s, t) ==
  LET i == Idx(s.tab, t)
      c == s.tab[i]
  IN Run([udp_sock \in {open_socket(s)} |->
  LET s1 == IF c.status = "NEW"
            THEN [SetStatus(s, t, "CONNECTED") EXCEPT
                           !.all_fds = s.all_fds \cup {udp_sock},
                           !.nos = s.nos + 1,
                           !.tab[i].sock = udp_sock]
            ELSE s
  IN IF c.status = "NEW" /\ udp_sock = INVALID_SOCKET THEN [s EXCEPT !.rv = 0 - 1]
     ELSE IF ~s.in.send_ok THEN [s1 EXCEPT !.rv = 0 - 1]
     ELSE [s1 EXCEPT !.rv = 0]])

\* mutation: a new ICMP flow is marked CONNECTING
handle_icmp_fwd_connecting(s, t) ==
  LET s1 == IF Conn(s, t).status = "NEW" THEN SetStatus(s, t, "CONNECTING") ELSE s
  IN IF ~s.in.send_ok THEN [s1 EXCEPT !.rv = 0 - 1]
     ELSE [s1 EXCEPT !.rv = 0]

handle_icmp_fwd(s, t) ==
  LET s1 == IF Conn(s, t).status = "NEW" THEN SetStatus(s, t, "CONNECTED") ELSE s
  IN IF ~s.in.send_ok THEN [s1 EXCEPT !.rv = 0 - 1]
     ELSE [s1 EXCEPT !.rv = 0]

zdtun_forward_full(s, t, pkt, no_ack) ==
  IF Conn(s, t).status = "CLOSED" THEN [s EXCEPT !.rv = 0]
  ELSE
    Run([s1 \in {CASE ipproto(t) = "TCP" -> handle_tcp_fwd(s, t, pkt, no_ack)
           [] ipproto(t) = "UDP" -> handle_udp_fwd(s, t)
           [] OTHER -> handle_icmp_fwd(s, t)} |->
      IF s1.fault = "none" /\ s1.rv = 0
      THEN [s1 EXCEPT !.tab[Idx(s.tab, t)].tstamp = s.now]
      ELSE s1])

zdtun_easy_forward(s, t, pkt) ==
  LET is_tcp_established ==
        ipproto(t) = "TCP" /\ ("SYN" \notin pkt.flags \/ "ACK" \in pkt.flags)
  IN Run([s1 \in {zdtun_lookup(s, t, ~is_tcp_established)} |->
     IF s1.fault # "none" \/ s1.rv = 0 THEN s1
     ELSE Run([s2 \in {zdtun_forward_full(s1, t, pkt, FALSE)} |->
          IF s2.fault # "none" THEN s2
          ELSE IF s2.rv # 0 THEN [zdtun_destroy_conn(s2, t) EXCEPT !.rv = 0]
          ELSE [s2 EXCEPT !.rv = 1]])])

----------------------------------------------------------------------------
(* Reply handlers and the readiness dispatcher *)

\* in.icmp: what recv on the ICMP socket gives: "err", "drop" (too small, not
\* an echo, or matching no connection) or "reply" (an echo reply matching t)
handle_icmp_reply(s) ==
  LET match == {i \in 1..Len(s.tab) : ipproto(s.tab[i].tuple) = "ICMP"}
  IN IF s.in.icmp = "err" THEN [s EXCEPT !.rv = 0 - 1]
     ELSE IF s.in.icmp = "drop" \/ match = {} THEN [s EXCEPT !.rv = 0]
     ELSE LET i == CHOOSE j \in match : \A k \in match : j <= k
              t == s.tab[i].tuple
          IN send_to_client([s EXCEPT !.tab[i].tstamp = s.now], t,
                            [t |-> t, flags |-> {"ICMP"}, seq |-> Zero32,
                             ack |-> Zero32, len |-> 0])

\* e.k: what recv gives: "err_quiet" (refused, reset, aborted), "err", "eof",
\* or "data" with e.n bytes read
handle_tcp_reply(s, t, e) ==
  LET i == Idx(s.tab, t)
      s0 == [s EXCEPT !.tab[i].tstamp = s.now]
      c == s0.tab[i]
      r == e.n
  IN
  IF e.k = "err_quiet" THEN [close_conn(s0, t) EXCEPT !.rv = 0]
  ELSE IF e.k = "err" THEN [close_conn(s0, t) EXCEPT !.rv = 0 - 1]
  ELSE IF e.k = "eof" THEN
    Run([s1 \in {IF ~c.fin_ack_sent THEN tcp_socket_fin_ack(s0, t) ELSE s0} |->
      IF s1.fault # "none" THEN s1
      ELSE [finalize_zdtun_sock([s1 EXCEPT !.tab[i].fin_ack_sent = TRUE], t)
              EXCEPT !.rv = 0]])
  ELSE IF c.pending.set \/ c.window_size < r THEN
    LET s1 == [s0 EXCEPT !.tab[i].pending = [size |-> r, sofar |-> 0, set |-> TRUE],
                         !.tab[i].nRead = @ + r,
                         !.all_fds = s0.all_fds \ {c.sock}]
    IN [process_pending_tcp_packets(s1, t) EXCEPT !.rv = 0]
  ELSE
    LET pkt == build_tcp_ip_header(c, {"PSH", "ACK"}, r)
        s1 == [s0 EXCEPT !.tab[i].zdtun_seq = Add32(c.zdtun_seq, r),
                         !.tab[i].nRead = @ + r,
                         !.tab[i].window_size = c.window_size - r]
    IN [send_to_client(s1, t, pkt) EXCEPT !.rv = 0]

\* mutation: a DNS response does not close the connection
check_dns_purge_never(s, t, is_response) == s

\* mutation: a DNS response removes the record at once
check_dns_purge_destroys(s, t, is_response) ==
  IF dst_port(t) # 53 \/ ~is_response THEN s
  ELSE zdtun_destroy_conn(s, t)

\* is_response: the datagram is long enough for a DNS header and has the
\* response bit set
check_dns_purge(s, t, is_response) ==
  IF dst_port(t) # 53 \/ ~is_response THEN s
  ELSE close_conn(s, t)

\* e.k: "err", "data" or "dns_response"
handle_udp_reply(s, t, e) ==
  LET i == Idx(s.tab, t) IN
  IF e.k = "err" THEN [close_conn(s, t) EXCEPT !.rv = 0 - 1]
  ELSE
    Run([s1 \in {send_to_client(s, t, [t |-> t, flags |-> {"UDP"}, seq |-> Zero32,
                                 ack |-> Zero32, len |-> 1])} |->
      IF s1.fault # "none" THEN s1
      ELSE [check_dns_purge([s1 EXCEPT !.tab[i].tstamp = s.now], t,
                            e.k = "dns_response") EXCEPT !.rv = 0]])

\* e.k: "so_fail" (getsockopt fails), "so_ok" (SO_ERROR is 0), "so_err"
handle_tcp_connect_async(s, t, e) ==
  LET i == Idx(s.tab, t) IN
  IF e.k = "so_ok"
  THEN Run([s1 \in {tcp_socket_syn(s, t)} |->
         IF s1.fault # "none" THEN s1
         ELSE [s1 EXCEPT !.tab[i].tstamp = s.now, !.rv = 0]])
  ELSE [close_conn(s, t) EXCEPT !.rv = 0 - 1]

RdKinds == {"err_quiet", "err", "eof", "data", "dns_response"}
WrKinds == {"so_fail", "so_ok", "so_err"}

\* the HASH_ITER loop over the records order[i..]; in.ev[t] says whether t's
\* socket is in rd_fds or wr_fds and what the system call on it then gives
RECURSIVE DispatchLoop(_, _, _)
DispatchLoop(s, order, i) ==
  IF i > Len(order) \/ s.fault # "none" THEN s
  ELSE
    LET t == order[i].tuple
        c == Conn(s, t)
        e == s.in.ev[t]
        s1 == IF c.sock = INVALID_SOCKET \/ e.k = "none" THEN s
              ELSE IF e.k \in RdKinds
              THEN CASE ipproto(t) = "TCP" -> handle_tcp_reply(s, t, e)
                     [] ipproto(t) = "UDP" -> handle_udp_reply(s, t, e)
                     [] OTHER -> s
              ELSE IF ipproto(t) = "TCP" THEN handle_tcp_connect_async(s, t, e)
              ELSE s
    IN DispatchLoop(s1, order, i + 1)

zdtun_handle_fd(s) ==
  Run([s1 \in {IF s.in.icmp # "none" THEN handle_icmp_reply(s) ELSE s} |-> DispatchLoop(s1, s1.tab, 1)])

\* ztdun_finalize destroys every record
RECURSIVE ztdun_finalize(_)
ztdun_finalize(s) ==
  IF Len(s.tab) = 0 \/ s.fault # "none" THEN s
  ELSE ztdun_finalize(zdtun_destroy_conn(s, s.tab[1].tuple))

----------------------------------------------------------------------------
(* Inputs of the operations. A run is either of several flows (TCP, UDP,   *)
(* ICMP) that exchange little data, or of one TCP stream that exchanges    *)
(* more, or of a pair of TCP streams that connect at once and then only    *)
(* see server data and window updates.                                     *)

Worlds == {"flows", "stream", "pair"}
TuplesOf(w) ==
  CASE w = "stream" -> {"T1"} [] w = "pair" -> {"T1", "T2"} [] OTHER -> {"T1", "U1", "I1"}
ConnsOf(w) ==
  CASE w = "stream" -> 1 [] w = "crowd" -> CrowdConns [] OTHER -> MaxConns
ServerBytesOf(w) ==
  CASE w = "stream" -> MaxServerBytes [] w = "pair" -> PairBytes [] OTHER -> 0
ClientBytesOf(w) == IF w = "stream" THEN MaxClientBytes ELSE 0

AllOk == [i \in 1..MaxSend |-> 0]
SendResults == [1..MaxSend -> {0, 1}]
\* the outcomes of an undefined operation that show when the table is tab
UbOutcomes(tab) ==
  {INVALID_SOCKET, UB_ABORT} \cup ({tab[i].sock : i \in 1..Len(tab)} \cap Fds)
NoEvent == [k |-> "none", n |-> 0]

DefaultIn ==
  [sc |-> AllOk, ub |-> INVALID_SOCKET, open_rv |-> 0, sock_ok |-> TRUE,
   connect |-> "ok", send_ok |-> TRUE, icmp |-> "none",
   ev |-> [t \in Tuples |-> NoEvent]]

\* the undefined outcomes only show after a failed send_client
SendUb(tab) == {p \in [sc : SendResults, ub : UbOutcomes(tab)] :
                  p.sc = AllOk => p.ub = INVALID_SOCKET}
SendOnly == [sc : SendResults, ub : {INVALID_SOCKET}]
\* closing a record of tab can send a RST
MaySendRst(tab) == \E i \in 1..Len(tab) :
  ipproto(tab[i].tuple) = "TCP" /\ tab[i].status # "CLOSED" /\ ~tab[i].fin_ack_sent
CloseResults(tab) == IF MaySendRst(tab) THEN SendResults ELSE {AllOk}

CLIENT_ISN == W32(0, 1000)
ClientLens(w) == IF w = "stream" THEN {0, 1} ELSE {0}
ServerLens(w) == {n \in 1..ServerBytesOf(w) : n % 2 = 0}
WinVals(w) == IF w = "stream" THEN {0, 2, MaxServerBytes} ELSE {2}
AckVals(w, c) ==
  IF w = "stream"
  THEN {c.zdtun_seq, Sub32(c.zdtun_seq, W32(0, 2)), Add32(c.zdtun_seq, 1)}
  ELSE {c.zdtun_seq}
Syn == [flags |-> {"SYN"}, seq |-> CLIENT_ISN, ack |-> Zero32, win |-> 2, len |-> 0]
Datagram == [flags |-> {}, seq |-> Zero32, ack |-> Zero32, win |-> 0, len |-> 1]

\* the segments a client sends on an established connection c
ClientSegments(w, c) ==
  IF w = "pair"
  THEN {[flags |-> {"ACK"}, seq |-> c.client_seq, ack |-> c.zdtun_seq, win |-> x,
         len |-> 0] : x \in WinVals(w)}
  ELSE
  {[Syn EXCEPT !.flags = {"RST"}]}
  \cup {[Syn EXCEPT !.flags = {"FIN", "ACK"}, !.len = n] : n \in ClientLens(w)}
  \cup {[Syn EXCEPT !.flags = {"PSH"}, !.len = n] : n \in ClientLens(w)}
  \cup {[flags |-> {"ACK"}, seq |-> c.client_seq, ack |-> c.zdtun_seq, win |-> x,
          len |-> n] : x \in WinVals(w), n \in ClientLens(w)}
  \cup {[flags |-> {"ACK"}, seq |-> c.client_seq, ack |-> a, win |-> MaxServerBytes,
          len |-> 0] : a \in AckVals(w, c)}
  \cup (IF w = "stream"
        THEN {[flags |-> {"ACK"}, seq |-> c.client_seq,
               ack |-> Sub32(c.zdtun_seq, W32(0, 2)), win |-> 0, len |-> 0]}
        ELSE {})

Case(pkt, no_ack, in) == [pkt |-> pkt, no_ack |-> no_ack, in |-> in]

\* the results a segment p forwarded on the established connection c can meet;
\* an input the segment's path never reads keeps its default value
SegmentCases(tab, c, p) ==
  LET drains == "ACK" \in p.flags /\ c.pending.set
      quiet == {[sc |-> AllOk, ub |-> INVALID_SOCKET]}
      D == IF drains THEN SendUb(tab) ELSE quiet
      With(su) == [DefaultIn EXCEPT !.sc = su.sc, !.ub = su.ub]
  IN IF "RST" \in p.flags \/ {"FIN", "ACK"} \subseteq p.flags
     THEN {Case(p, FALSE, With(su)) : su \in SendOnly}
     ELSE IF c.sock = INVALID_SOCKET THEN {Case(p, FALSE, DefaultIn)}
     ELSE IF p.len = 0 THEN {Case(p, FALSE, With(su)) : su \in D}
     ELSE {Case(p, FALSE, [With(su) EXCEPT !.send_ok = FALSE]) : su \in D}
          \cup {Case(p, TRUE, With(su)) : su \in D}
          \cup {Case(p, FALSE, With(su)) : su \in (IF drains THEN SendUb(tab) ELSE SendOnly)}

\* the packets, system-call results and callback results a forward of tuple
\* t can meet when the table is tab
ForwardCases(w, tab, t) ==
  LET st == IF Has(tab, t) THEN tab[Idx(tab, t)].status ELSE "NEW" IN
  IF st = "CLOSED" \/ (st = "CONNECTING" /\ ipproto(t) = "TCP")
  THEN {Case(Syn, FALSE, DefaultIn)}
  ELSE IF ipproto(t) # "TCP"
  THEN {Case(Datagram, FALSE, [DefaultIn EXCEPT !.sock_ok = so, !.send_ok = se]) :
          so \in (IF st = "NEW" /\ ipproto(t) = "UDP" THEN BOOLEAN ELSE {TRUE}),
          se \in BOOLEAN}
  ELSE IF st = "NEW" /\ w = "pair" THEN {Case(Syn, FALSE, DefaultIn)}
  ELSE IF st = "NEW"
  THEN {Case(Syn, FALSE, [DefaultIn EXCEPT !.sock_ok = FALSE]),
        Case(Syn, FALSE, [DefaultIn EXCEPT !.connect = "error"]),
        Case(Syn, FALSE, [DefaultIn EXCEPT !.connect = "in_progress"])}
       \cup {Case(Syn, FALSE, [DefaultIn EXCEPT !.sc = sc]) : sc \in SendResults}
  ELSE UNION {SegmentCases(tab, tab[Idx(tab, t)], p) :
                p \in ClientSegments(w, tab[Idx(tab, t)])}

\* what a socket given to the dispatcher as ready then delivers ("err_quiet"
\* and "so_fail" leave the engine as "err" and "so_err" do: the dispatcher
\* drops the handlers' return values). The caller's rd_fds and wr_fds come
\* from a select on the sets zdtun_fds returns: a socket is readable only if
\* it is in all_fds, writable only if it is in tcp_connecting
Events(w, c) ==
  LET rd == IF c.sock \in all_fds THEN {"go"} ELSE {}
      wr == IF c.sock \in tcp_connecting THEN {"go"} ELSE {}
  IN
  IF c.sock = INVALID_SOCKET THEN {NoEvent}
  ELSE IF w = "pair"
  THEN {NoEvent} \cup {[k |-> "data", n |-> n] : n \in ServerLens(w), g \in rd}
  ELSE IF ipproto(c.tuple) = "TCP"
  THEN {NoEvent}
       \cup {[k |-> x, n |-> 0] : x \in {"err", "eof"}, g \in rd}
       \cup {[k |-> x, n |-> 0] : x \in {"so_ok", "so_err"}, g \in wr}
       \cup {[k |-> "data", n |-> n] : n \in ServerLens(w), g \in rd}
  ELSE {NoEvent}
       \cup {[k |-> x, n |-> 0] : x \in {"err", "data", "dns_response"}, g \in rd}

DispatchCases(w, tab) ==
  LET hasIcmp == \E i \in 1..Len(tab) : ipproto(tab[i].tuple) = "ICMP"
      E(t) == IF Has(tab, t) THEN Events(w, tab[Idx(tab, t)]) ELSE {NoEvent}
      evs == {[t \in Tuples |-> CASE t = "T1" -> a [] t = "T2" -> b
                                   [] t = "U1" -> c [] OTHER -> d] :
                a \in E("T1"), b \in E("T2"), c \in E("U1"), d \in E("I1")}
      \* the undefined outcomes are met on the end-of-file and data paths
      Sus(ic, ev) ==
        IF \E t \in Tuples : ev[t].k \in {"eof", "data"} /\ ipproto(t) = "TCP"
        THEN SendUb(tab)
        ELSE IF \/ ic = "reply"
                \/ \E t \in Tuples : ev[t].k \in {"data", "dns_response"}
                \/ \E t \in Tuples : ev[t].k # "none" /\ ipproto(t) = "TCP"
        THEN SendOnly
        ELSE {[sc |-> AllOk, ub |-> INVALID_SOCKET]}
  IN {[DefaultIn EXCEPT !.icmp = "drop"]}
     \cup UNION {
       {[DefaultIn EXCEPT !.sc = su.sc, !.ub = su.ub, !.icmp = ic, !.ev = ev] :
          su \in Sus(ic, ev)} :
       ic \in {"none"} \cup (IF hasIcmp THEN {"reply"} ELSE {}), ev \in evs}

\* the counters of a connection stay within the bounds of the model
SeqAdvance(c) == Sub32(c.zdtun_seq, INITIAL_SEQ)
ClientAdvance(c) == Sub32(c.client_seq, CLIENT_ISN)
SocksOf(tab) == Cardinality({i \in 1..Len(tab) : tab[i].sock # INVALID_SOCKET})
Bounded(w, s) ==
  /\ Len(s.tab) <= ConnsOf(w)
  /\ SocksOf(s.tab) + 1 - s.nos <= MaxDrift
  /\ \A i \in 1..Len(s.tab) :
       LET c == s.tab[i] IN
       (ipproto(c.tuple) = "TCP" /\ c.status # "NEW") =>
          /\ SeqAdvance(c).hi = 0 /\ SeqAdvance(c).lo <= ServerBytesOf(w) + 2
          /\ ClientAdvance(c).hi = 0 /\ ClientAdvance(c).lo <= ClientBytesOf(w) + 2
          /\ c.nRead <= ServerBytesOf(w) + 2

----------------------------------------------------------------------------
(* Actions: the public operations *)

Commit(s, op, at) ==
  /\ Bounded(world, s)
  /\ conn_table' = s.tab
  /\ num_open_socks' = s.nos
  /\ num_active_connections' = s.nac
  /\ all_fds' = s.all_fds
  /\ tcp_connecting' = s.tcp_connecting
  /\ removed' = s.removed
  /\ fault' = s.fault
  /\ purged_at' = at
  /\ finalized' = (op = "finalize" /\ s.fault = "none")
  /\ UNCHANGED <<clock, world>>

Running == fault = "none" /\ ~finalized

Init ==
  /\ conn_table = <<>>
  /\ num_open_socks = 1
  /\ num_active_connections = 0
  /\ all_fds = {icmp_socket}
  /\ tcp_connecting = {}
  /\ clock = 0
  /\ fault = "none"
  /\ finalized = FALSE
  /\ world \in Worlds
  /\ removed = {}
  /\ purged_at = 0 - 1

Lookup ==
  /\ Running
  /\ \E t \in TuplesOf(world), create \in BOOLEAN :
       \E orv \in (IF create /\ ~Has(conn_table, t) THEN {0, 1} ELSE {0}),
          sc \in (IF create /\ ~Has(conn_table, t) /\ num_open_socks >= MAX_NUM_SOCKETS
                  THEN CloseResults(conn_table) ELSE {AllOk}) :
         LET s == zdtun_lookup(
                    EngineState([DefaultIn EXCEPT !.sc = sc, !.open_rv = orv]), t, create)
         IN Commit(s, "lookup", 0 - 1)

\* zdtun_forward and zdtun_send_oob on a connection the caller holds
Forward ==
  /\ Running
  /\ \E i \in 1..Len(conn_table) :
       LET t == conn_table[i].tuple IN
       \E fc \in ForwardCases(world, conn_table, t) :
         LET s == zdtun_forward_full(EngineState(fc.in), t, fc.pkt, fc.no_ack)
         IN Commit(s, "forward", 0 - 1)

EasyForward ==
  /\ Running
  /\ \E t \in TuplesOf(world) :
       \E fc \in {x \in ForwardCases(world, conn_table, t) :
                    ~x.no_ack /\ (Has(conn_table, t) => x.in = DefaultIn)},
          orv \in (IF Has(conn_table, t) THEN {0} ELSE {0, 1}) :
         LET s == zdtun_easy_forward(
                    EngineState([fc.in EXCEPT !.open_rv = orv]), t, fc.pkt)
         IN Commit(s, "easy_forward", 0 - 1)

HandleFd ==
  /\ Running
  /\ \E in \in DispatchCases(world, conn_table) :
       LET s == zdtun_handle_fd(EngineState(in))
       IN Commit(s, "handle_fd", 0 - 1)

PurgeExpired ==
  /\ Running
  /\ \E skew \in {0} \cup {timeout(conn_table[i].tuple) : i \in 1..Len(conn_table)},
        sc \in CloseResults(conn_table) :
       LET now == clock + skew
           s == zdtun_purge_expired(EngineState([DefaultIn EXCEPT !.sc = sc]), now)
       IN Commit(s, "purge", now)

DestroyConn ==
  /\ Running
  /\ \E i \in 1..Len(conn_table) : \E sc \in CloseResults(<<conn_table[i]>>) :
       LET t == conn_table[i].tuple
           s == zdtun_destroy_conn(EngineState([DefaultIn EXCEPT !.sc = sc]), t)
       IN Commit(s, "destroy", 0 - 1)

Finalize ==
  /\ Running
  /\ \E sc \in CloseResults(conn_table) :
       LET s == ztdun_finalize(EngineState([DefaultIn EXCEPT !.sc = sc]))
       IN Commit(s, "finalize", 0 - 1)

\* time passes between operations
Tick ==
  /\ Running
  /\ world = "flows"
  /\ clock + TimeStep <= MaxTime
  /\ clock' = clock + TimeStep
  /\ UNCHANGED <<conn_table, num_open_socks, num_active_connections, all_fds,
                 tcp_connecting, fault, finalized, world, removed, purged_at>>

Next ==
  \/ Lookup
  \/ Forward
  \/ EasyForward
  \/ HandleFd
  \/ PurgeExpired
  \/ DestroyConn
  \/ Finalize
  \/ Tick

Spec == Init /\ [][Next]_vars

----------------------------------------------------------------------------
(* The purge on a crowded table: the engine as zdtun_init leaves it, then  *)
(* a lookup of each tuple and, at the times given, the forward of the      *)
(* first packet of each, every call succeeding.                            *)

Fresh ==
  [tab |-> <<>>, nos |-> 1, nac |-> 0, all_fds |-> {icmp_socket},
   tcp_connecting |-> {}, removed |-> {}, out |-> <<>>, edges |-> {}, wr |-> 0,
   k |-> 1, fault |-> "none", rv |-> 0, now |-> 0, in |-> DefaultIn]
CrowdOrders ==
  {p \in [1..CrowdConns -> {"T1", "U1", "I1"}] :
     \A i, j \in 1..CrowdConns : p[i] = p[j] => i = j}
CrowdTimes ==
  {x \in [1..CrowdConns -> 0..CrowdTime] :
     \A i, j \in 1..CrowdConns : i <= j => x[i] <= x[j]}
RECURSIVE CrowdLookups(_, _, _)
CrowdLookups(s, p, i) ==
  IF i > CrowdConns THEN s
  ELSE CrowdLookups(zdtun_lookup(s, p[i], TRUE), p, i + 1)
RECURSIVE CrowdForwards(_, _, _, _)
CrowdForwards(s, q, at, i) ==
  IF i > CrowdConns THEN s
  ELSE CrowdForwards(
         zdtun_forward_full([s EXCEPT !.now = at[i], !.out = <<>>, !.k = 1], q[i],
                            IF ipproto(q[i]) = "TCP" THEN Syn ELSE Datagram, FALSE),
         q, at, i + 1)
Crowd(p, q, at) == CrowdForwards(CrowdLookups(Fresh, p, 1), q, at, 1)

InitPurge ==
  \E p \in CrowdOrders, q \in CrowdOrders, at \in CrowdTimes :
    /\ conn_table = Crowd(p, q, at).tab
    /\ num_open_socks = Crowd(p, q, at).nos
    /\ num_active_connections = Crowd(p, q, at).nac
    /\ all_fds = Crowd(p, q, at).all_fds
    /\ tcp_connecting = Crowd(p, q, at).tcp_connecting
    /\ clock = at[CrowdConns]
    /\ fault = "none"
    /\ finalized = FALSE
    /\ world = "crowd"
    /\ removed = {}
    /\ purged_at = 0 - 1

NextPurge == PurgeExpired

SpecPurge == InitPurge /\ [][NextPurge]_vars

----------------------------------------------------------------------------
(* Properties *)

Records == {conn_table[i] : i \in 1..Len(conn_table)}
Absent == {t \in TuplesOf(world) : ~Has(conn_table, t)}
\* the states a lookup of the absent tuple t refused by on_connection_open
\* can leave
RefusedLookups(t) ==
  {zdtun_lookup(EngineState([DefaultIn EXCEPT !.sc = sc, !.open_rv = 1]), t, TRUE) :
     sc \in SendResults}
\* the states a lookup of t without create can leave
PlainLookups(t) == {zdtun_lookup(EngineState(DefaultIn), t, FALSE)}

\* C1: on_connection_close is called exactly once for every record, before
\* the record is removed: a removed record was closed once, a record in the
\* table at most once
C1_CloseExactlyOnce ==
  /\ \A r \in removed : r.nClose = 1
  /\ \A c \in Records : c.nClose <= 1

\* C2: on_connection_open is called exactly once for every record, before
\* anything is forwarded for it: every record of the table, whatever was
\* forwarded on it, and every removed record has seen exactly one call
C2_OpenExactlyOnce ==
  /\ \A c \in Records : c.nOpen = 1
  /\ \A r \in removed : r.nOpen = 1
C2_Witness ==
  \E c \in Records : c.sock # INVALID_SOCKET /\ c.status = "CONNECTED" /\ c.nOpen = 1

\* C3: a record whose status is CLOSED has the sentinel as its socket
C3_ClosedHasNoSocket ==
  \A c \in Records : c.status = "CLOSED" => c.sock = INVALID_SOCKET
\* a TCP connection that had a socket (its handshake was started) is closed
C3_Witness ==
  \E c \in Records :
    c.status = "CLOSED" /\ c.zdtun_seq # Zero32 /\ c.sock = INVALID_SOCKET

\* C4: the number of records whose socket is not the sentinel equals
\* num_open_socks, the engine's own ICMP socket (which zdtun_init counts
\* into num_open_socks) set aside
C4_SocketCount == SocksOf(conn_table) + 1 = num_open_socks

\* C5 as stated: the table has num_active_connections records, and a lookup
\* refused by on_connection_open or made without create leaves both numbers
\* as they were
C5_Original ==
  /\ Len(conn_table) = num_active_connections
  /\ Running =>
       /\ \A t \in TuplesOf(world) : \A r \in PlainLookups(t) :
            Len(r.tab) = Len(conn_table) /\ r.nac = num_active_connections
       /\ \A t \in Absent : \A r \in RefusedLookups(t) :
            r.fault = "none" =>
              Len(r.tab) = Len(conn_table) /\ r.nac = num_active_connections
\* C5 amended: the table has num_active_connections records; a lookup without
\* create changes nothing; a refused lookup adds no record and leaves the two
\* numbers equal, and changes nothing unless num_open_socks has reached
\* MAX_NUM_SOCKETS (the eager purge then runs before the callback is asked)
C5_TableCount ==
  /\ Len(conn_table) = num_active_connections
  /\ Running =>
       /\ \A t \in TuplesOf(world) : \A r \in PlainLookups(t) :
            r.tab = conn_table /\ r.nac = num_active_connections
       /\ \A t \in Absent : \A r \in RefusedLookups(t) :
            r.fault = "none" =>
              /\ ~Has(r.tab, t) /\ r.rv = 0
              /\ Len(r.tab) = r.nac /\ Len(r.tab) <= Len(conn_table)
              /\ num_open_socks < MAX_NUM_SOCKETS =>
                   r.tab = conn_table /\ r.nac = num_active_connections
\* a refused lookup whose eager purge removes a record
C5_Witness ==
  /\ Running /\ Len(conn_table) = num_active_connections
  /\ \E t \in Absent : \E r \in RefusedLookups(t) :
       r.fault = "none" /\ Len(r.tab) < Len(conn_table) /\ r.nac = Len(r.tab)

\* C6: num_open_socks never exceeds MAX_NUM_SOCKETS
C6_SocketCeiling == num_open_socks <= MAX_NUM_SOCKETS

\* C7: close_conn called again on a connection it has closed changes nothing
\* and emits nothing, and at most one RST is handed to send_client over the
\* life of a connection
C7_CloseIdempotentOneRst ==
  /\ \A c \in Records : c.nRst <= 1
  /\ \A r \in removed : r.nRst <= 1
  /\ Running =>
       \A c \in Records : \A sc \in CloseResults(<<c>>) :
         \A r \in {close_conn(EngineState([DefaultIn EXCEPT !.sc = sc]), c.tuple)} :
           r.fault = "none" => close_conn(r, c.tuple) = r

\* C8: a connection for which send_client returned nonzero is CLOSED, its
\* socket released, once the operation that made the call has returned
C8_FailedSendCloses ==
  fault = "none" =>
    \A c \in Records : c.failed => c.status = "CLOSED" /\ c.sock = INVALID_SOCKET
C8_Witness ==
  /\ fault = "none"
  /\ \E c \in Records : c.failed /\ c.status = "CLOSED" /\ c.nOpen = 1

\* C9: every public operation returns: none recurses without end, whatever
\* send_client returns
C9_OperationsReturn == fault # "stack_overflow"

\* C10: right after zdtun_purge_expired(now) has returned, no record of the
\* table has now - tstamp above its protocol's idle timeout and none is CLOSED
C10_PurgeLeavesFresh ==
  (purged_at >= 0 /\ fault = "none") =>
    \A c \in Records :
      purged_at - c.tstamp <= timeout(c.tuple) /\ c.status # "CLOSED"
\* a purge that removed a record and left another
C10_Witness ==
  /\ purged_at >= 0 /\ fault = "none"
  /\ removed # {}
  /\ Records # {}

----------------------------------------------------------------------------
(* The states the operations can leave when called in the current state *)

LookupOutcomes ==
  UNION {{zdtun_lookup(EngineState([DefaultIn EXCEPT !.sc = sc, !.open_rv = orv]),
                       t, TRUE) : sc \in CloseResults(conn_table), orv \in {0, 1}} :
           t \in Absent}
ForwardOutcomes ==
  UNION {{zdtun_forward_full(EngineState(fc.in), c.tuple, fc.pkt, fc.no_ack) :
            fc \in ForwardCases(world, conn_table, c.tuple)} : c \in Records}
EasyForwardOutcomes ==
  UNION {{zdtun_easy_forward(EngineState(fc.in), t, fc.pkt) :
            fc \in {x \in ForwardCases(world, conn_table, t) : ~x.no_ack}} :
           t \in TuplesOf(world)}
HandleFdOutcomes ==
  {zdtun_handle_fd(EngineState(in)) : in \in DispatchCases(world, conn_table)}
PurgeOutcomes ==
  {zdtun_purge_expired(EngineState([DefaultIn EXCEPT !.sc = sc]), clock + skew) :
     sc \in CloseResults(conn_table),
     skew \in {0} \cup {timeout(c.tuple) : c \in Records}}
DestroyOutcomes ==
  UNION {{zdtun_destroy_conn(EngineState([DefaultIn EXCEPT !.sc = sc]), c.tuple) :
            sc \in CloseResults(<<c>>)} : c \in Records}
FinalizeOutcomes ==
  {ztdun_finalize(EngineState([DefaultIn EXCEPT !.sc = sc])) :
     sc \in CloseResults(conn_table)}
Outcomes ==
  LookupOutcomes \cup ForwardOutcomes \cup EasyForwardOutcomes \cup HandleFdOutcomes
  \cup PurgeOutcomes \cup DestroyOutcomes \cup FinalizeOutcomes

TcpTuples == {t \in TuplesOf(world) : ipproto(t) = "TCP"}
\* t's record before the operation (as zdtun_lookup would create it if absent)
Pre(t) == IF Has(conn_table, t) THEN conn_table[Idx(conn_table, t)]
          ELSE NewConn(t, clock)
\* the packets handed to send_client for t, in order, by the operation that
\* left r
Segs(r, t) == SelectSeq(r.out, LAMBDA e : e.pkt.t = t)
\* the sequence space a segment occupies: its payload, and 1 for SYN and FIN
SeqSpace(p) == IF "SYN" \in p.flags \/ "FIN" \in p.flags THEN p.len + 1 ELSE p.len
RECURSIVE SumSpace(_)
SumSpace(segs) ==
  IF Len(segs) = 0 THEN 0 ELSE SeqSpace(segs[1].pkt) + SumSpace(Tail(segs))
\* a <= b and a < b in arithmetic modulo 2^32
SeqLe(a, b) == Sub32(b, a).hi < 32768
SeqLt(a, b) == a # b /\ SeqLe(a, b)
\* the sequence numbers of the last segment emitted before the operation and
\* of those the operation emits
SeqChain(r, t) ==
  (IF Pre(t).last_seq = NoSeq THEN <<>> ELSE <<Pre(t).last_seq>>)
  \o [j \in 1..Len(Segs(r, t)) |-> Segs(r, t)[j].pkt.seq]
\* zdtun_seq when the operation began, INITIAL_SEQ if the operation set it up
SeqBase(r, t) ==
  IF Pre(t).status = "NEW" /\ Conn(r, t).status # "NEW" THEN INITIAL_SEQ
  ELSE Pre(t).zdtun_seq

\* C11 as stated: the sequence numbers of the segments emitted for a TCP
\* connection are strictly increasing modulo 2^32, and zdtun_seq advances by
\* the payload length for each data segment, by 1 for each SYN and FIN, and
\* by nothing otherwise (looked at where every send_client call succeeds)
C11_Original ==
  Running =>
    \A r \in Outcomes : (r.fault = "none" /\ r.in.sc = AllOk) =>
      \A t \in TcpTuples :
        /\ \A j \in 1..(Len(SeqChain(r, t)) - 1) :
             SeqLt(SeqChain(r, t)[j], SeqChain(r, t)[j + 1])
        /\ Has(r.tab, t) =>
             Conn(r, t).zdtun_seq = Add32(SeqBase(r, t), SumSpace(Segs(r, t)))
\* C11 amended: the sequence numbers of the segments emitted for a TCP
\* connection never decrease modulo 2^32 and never exceed zdtun_seq (a segment
\* without payload, SYN or FIN repeats the number of the one before it), and
\* zdtun_seq advances by the payload length for each data segment, by 1 for
\* each SYN and FIN, and by nothing otherwise
C11_SeqAdvance ==
  /\ \A c \in Records : c.last_seq # NoSeq => SeqLe(c.last_seq, c.zdtun_seq)
  /\ Running =>
       \A r \in Outcomes : r.fault = "none" =>
         \A t \in TcpTuples :
           /\ \A j \in 1..(Len(SeqChain(r, t)) - 1) :
                SeqLe(SeqChain(r, t)[j], SeqChain(r, t)[j + 1])
           /\ Has(r.tab, t) =>
                Conn(r, t).zdtun_seq = Add32(SeqBase(r, t), SumSpace(Segs(r, t)))
\* a connection that has sent its SYN+ACK and data, and then a bare ACK
C11_Witness ==
  \E c \in Records :
    /\ ipproto(c.tuple) = "TCP" /\ c.status = "CONNECTED"
    /\ SeqAdvance(c).lo >= 3 /\ c.last_seq = c.zdtun_seq

\* the states a lookup with create of the absent tuple t, accepted by
\* on_connection_open, can leave
AcceptedLookups(t) ==
  {zdtun_lookup(EngineState([DefaultIn EXCEPT !.sc = sc]), t, TRUE) :
     sc \in CloseResults(conn_table)}
Oldest == {c \in Records : \A d \in Records : c.tstamp <= d.tstamp}

\* C12 as stated: a lookup with create made while num_open_socks equals
\* MAX_NUM_SOCKETS runs the purger before the record is allocated, that purge
\* destroys the record with the oldest timestamp, and the creation succeeds
C12_Original ==
  (Running /\ num_open_socks = MAX_NUM_SOCKETS) =>
    \A t \in Absent : \A r \in AcceptedLookups(t) :
      r.fault = "none" =>
        /\ r.rv = 1 /\ Has(r.tab, t)
        /\ Records # {} => \E c \in Oldest : ~Has(r.tab, c.tuple)
\* C12 amended: a lookup with create made while num_open_socks equals
\* MAX_NUM_SOCKETS runs the purger before the record is allocated and the
\* creation succeeds; the purge destroys exactly the records that are CLOSED
\* or idle beyond their timeout at that time, so the oldest record stays when
\* it is neither (the overload pass needs num_open_socks above the ceiling)
C12_EagerPurge ==
  (Running /\ num_open_socks = MAX_NUM_SOCKETS) =>
    \A t \in Absent : \A r \in AcceptedLookups(t) :
      r.fault = "none" =>
        /\ r.rv = 1 /\ Has(r.tab, t)
        /\ Conn(r, t) = on_connection_open(NewConn(t, clock))
        /\ {x.tuple : x \in r.removed} =
             {c.tuple : c \in {d \in Records : Expired(d, clock)}}
        /\ \A c \in Records : ~Expired(c, clock) => Has(r.tab, c.tuple)
\* at the ceiling, a lookup whose purge destroys a record and keeps another
C12_Witness ==
  /\ Running /\ num_open_socks = MAX_NUM_SOCKETS
  /\ \E t \in Absent : \E r \in AcceptedLookups(t) :
       /\ r.fault = "none" /\ r.rv = 1 /\ r.removed # {}
       /\ \E c \in Oldest : Has(r.tab, c.tuple)

\* C13: exactly one SYN+ACK is emitted for a TCP connection, when the connect
\* to the server completes: by the first forward when connect succeeds at
\* once (seq 0x77EB77EB, ack the client's SYN seq + 1, NEW -> CONNECTED), or,
\* when connect is in progress, not by that forward but by the later writable
\* event with SO_ERROR 0 (NEW -> CONNECTING -> CONNECTED); nothing is emitted
\* while the record is CONNECTING
C13_OneSynAck ==
  /\ \A c \in Records : ipproto(c.tuple) = "TCP" =>
       /\ c.nSynAck <= 1
       /\ c.status = "CONNECTED" => c.nSynAck = 1
       /\ c.status \in {"NEW", "CONNECTING"} => c.nSynAck = 0
  /\ Running =>
       \A r \in Outcomes : r.fault = "none" =>
         \A t \in TcpTuples :
           /\ \A j \in 1..Len(Segs(r, t)) :
                Segs(r, t)[j].pkt.flags = {"SYN", "ACK"} =>
                  /\ j = 1 /\ Pre(t).status \in {"NEW", "CONNECTING"}
                  /\ Segs(r, t)[j].pkt.seq = INITIAL_SEQ
                  /\ Segs(r, t)[j].pkt.ack = Add32(CLIENT_ISN, 1)
           \* the record leaves CONNECTING with the SYN+ACK, not before
           /\ (Pre(t).status = "CONNECTING" /\ Len(Segs(r, t)) > 0) =>
                Segs(r, t)[1].pkt.flags = {"SYN", "ACK"}
           /\ (Has(r.tab, t) /\ Conn(r, t).status = "CONNECTING") =>
                Len(Segs(r, t)) = 0

\* the state zdtun_handle_fd leaves when t's socket is readable and recv gives
\* n bytes, every send_client call succeeding
DataRead(t, n) ==
  zdtun_handle_fd(EngineState([DefaultIn EXCEPT !.ev[t] = [k |-> "data", n |-> n]]))
\* the bare ACK segments a client can send on c, every call succeeding
AckForwards(c) ==
  {p \in ClientSegments(world, c) : p.flags = {"ACK"} /\ p.len = 0}
\* what the window p announces leaves once the bytes in flight are taken off
Window(c, p) == Min(p.win, TCP_WINDOW_SIZE) - Sub32(c.zdtun_seq, p.ack).lo
Queued(c) == c.pending.size - c.pending.sofar
Flowing == {c \in Records : ipproto(c.tuple) = "TCP" /\ c.status = "CONNECTED"
                              /\ c.sock # INVALID_SOCKET}

\* C14: flow control, send_client accepting every segment. When L bytes are
\* read from the server while the window W is below L and nothing is pending,
\* one PUSH+ACK with exactly W bytes is emitted (none if W = 0), L - W bytes
\* stay queued and the socket leaves the readable set; when a later client ACK
\* makes the window at least the queued remainder, exactly the remainder is
\* emitted, the queue is freed and the socket is readable again. After every
\* drain attempt the queue is empty or the window is 0
C14_FlowControl ==
  /\ \A c \in Records : c.pending.set => c.window_size = 0
  /\ Running =>
       /\ \A r \in Outcomes : r.fault = "none" =>
            \A t \in TcpTuples :
              (Has(r.tab, t) /\ Conn(r, t).pending.set) => Conn(r, t).window_size = 0
       /\ \A c \in Flowing : \A L \in ServerLens(world) :
            (~c.pending.set /\ c.sock \in all_fds /\ c.window_size < L) =>
              \A r \in {DataRead(c.tuple, L)} :
                /\ r.fault = "none"
                /\ Segs(r, c.tuple) =
                     IF c.window_size = 0 THEN <<>>
                     ELSE <<[pkt |-> [t |-> c.tuple, flags |-> {"PSH", "ACK"},
                                      seq |-> c.zdtun_seq, ack |-> c.client_seq,
                                      len |-> c.window_size], rv |-> 0]>>
                /\ Conn(r, c.tuple).pending =
                     [size |-> L, sofar |-> c.window_size, set |-> TRUE]
                /\ c.sock \notin r.all_fds
       /\ \A c \in Flowing : \A p \in AckForwards(c) :
            (c.pending.set /\ Sub32(c.zdtun_seq, p.ack).hi = 0
               /\ Window(c, p) >= Queued(c)) =>
              \A r \in {zdtun_forward_full(EngineState(DefaultIn), c.tuple, p, FALSE)} :
                /\ r.fault = "none"
                /\ Segs(r, c.tuple) =
                     <<[pkt |-> [t |-> c.tuple, flags |-> {"PSH", "ACK"},
                                 seq |-> c.zdtun_seq, ack |-> c.client_seq,
                                 len |-> Queued(c)], rv |-> 0]>>
                /\ Conn(r, c.tuple).pending = NoPending
                /\ c.sock \in r.all_fds
\* a connection with part of what was read sent and the rest queued, which an
\* ACK of the client can drain
C14_Witness ==
  /\ Running
  /\ \E c \in Flowing :
       /\ c.pending.set /\ c.pending.sofar > 0 /\ Queued(c) > 0
       /\ c.sock \notin all_fds
       /\ \E p \in AckForwards(c) :
            Sub32(c.zdtun_seq, p.ack).hi = 0 /\ Window(c, p) >= Queued(c)

\* the UDP connections to port 53 whose socket a select reports
DnsFlows == {c \in Records : ipproto(c.tuple) = "UDP" /\ dst_port(c.tuple) = 53
                               /\ c.sock \in all_fds}
\* the dispatch calls in which t's socket delivers a DNS response
DnsReplies(t) ==
  {zdtun_handle_fd(EngineState(in)) :
     in \in {x \in DispatchCases(world, conn_table) : x.ev[t].k = "dns_response"}}
\* the state r as the next operation finds it
After(r) == [r EXCEPT !.out = <<>>, !.edges = {}, !.wr = 0, !.k = 1, !.rv = 0, !.removed = {}, !.in = DefaultIn]

Same(r) ==
  /\ r.tab = conn_table /\ r.nos = num_open_socks /\ r.nac = num_active_connections
  /\ r.all_fds = all_fds /\ r.tcp_connecting = tcp_connecting /\ Len(r.out) = 0

\* C16 as stated: a lookup with create of an absent tuple that
\* on_connection_open refuses returns nothing, inserts no record for the tuple
\* and leaves num_active_connections unchanged; a lookup without create of an
\* absent tuple returns nothing and changes no engine state
C16_Original ==
  Running =>
    \A t \in Absent :
      /\ \A r \in RefusedLookups(t) : r.fault = "none" =>
           r.rv = 0 /\ ~Has(r.tab, t) /\ r.nac = num_active_connections
      /\ \A r \in PlainLookups(t) : r.rv = 0 /\ Same(r)
\* C16 amended: the refused lookup returns nothing, inserts no record for the
\* tuple and does not increment num_active_connections; below the socket
\* ceiling it changes nothing, at the ceiling the purge it ran first has taken
\* one off the counter for each record it destroyed. The lookup without create
\* returns nothing and changes no engine state
C16_RefusedLookup ==
  Running =>
    \A t \in Absent :
      /\ \A r \in RefusedLookups(t) : r.fault = "none" =>
           /\ r.rv = 0 /\ ~Has(r.tab, t)
           /\ r.nac = num_active_connections - Cardinality(r.removed)
           /\ num_open_socks < MAX_NUM_SOCKETS => Same(r)
      /\ \A r \in PlainLookups(t) : r.rv = 0 /\ Same(r)
\* a refused lookup at the ceiling whose purge destroys a record
C16_Witness ==
  /\ Running /\ num_open_socks >= MAX_NUM_SOCKETS
  /\ \E t \in Absent : \E r \in RefusedLookups(t) :
       r.fault = "none" /\ r.rv = 0 /\ r.nac < num_active_connections

\* the states the forward of a client segment with the RST flag on the
\* established connection c can leave
ClientRst(c) ==
  {zdtun_forward_full(EngineState([DefaultIn EXCEPT !.sc = sc]), c.tuple,
                      [Syn EXCEPT !.flags = {"RST"}], FALSE) : sc \in SendResults}

\* C17: when a client segment with the RST flag arrives on a CONNECTED
\* record, the connection is closed (status CLOSED, socket released) and no
\* packet is emitted to the client
C17_ClientRstSilent ==
  Running =>
    \A c \in Records : (ipproto(c.tuple) = "TCP" /\ c.status = "CONNECTED") =>
      \A r \in ClientRst(c) : r.fault = "none" =>
        /\ Conn(r, c.tuple).status = "CLOSED"
        /\ Conn(r, c.tuple).sock = INVALID_SOCKET
        /\ Len(r.out) = 0

\* the segments with the RST flag among the packets the operation that left
\* r emitted for t
Rsts(r, t) == SelectSeq(Segs(r, t), LAMBDA e : "RST" \in e.pkt.flags)

\* C18: close_conn on a TCP record (here called by zdtun_destroy_conn, every
\* send_client call succeeding) emits a RST+ACK if and only if the record is
\* CONNECTED and fin_ack_sent is false; closing a record that is NEW or
\* CONNECTING, or one whose FIN+ACK was sent, emits no RST
C18_RstOnlyConnected ==
  Running =>
    \A c \in Records : ipproto(c.tuple) = "TCP" =>
      \A r \in {zdtun_destroy_conn(EngineState(DefaultIn), c.tuple)} :
        /\ r.fault = "none"
        /\ Len(Rsts(r, c.tuple)) > 0 <=> (c.status = "CONNECTED" /\ ~c.fin_ack_sent)
        /\ \A j \in 1..Len(Rsts(r, c.tuple)) :
             Rsts(r, c.tuple)[j].pkt.flags = {"RST", "ACK"}

\* the records that are CLOSED and wait for the purge
ClosedRecords == {c \in Records : c.status = "CLOSED"}
\* the fields of a record that forwarding works on
Forwarding(c) == [sock |-> c.sock, client_seq |-> c.client_seq, zdtun_seq |-> c.zdtun_seq,
                  window_size |-> c.window_size, pending |-> c.pending,
                  fin_ack_sent |-> c.fin_ack_sent]

\* C19: nothing is forwarded for a record once it is CLOSED, until it is
\* destroyed: no packet is emitted to the client for it and its sequence,
\* window and pending state stay as close_conn left them, in the rest of the
\* operation that closed it and in every later operation (a forward on it
\* returns 0 without effect; so does the dispatch of replies)
C19_ClosedUntouched ==
  /\ fault = "none" =>
       \A c \in ClosedRecords :
         /\ c.zdtun_seq = c.at_close.seq /\ c.window_size = c.at_close.win
         /\ ~c.pending.set /\ c.sock = INVALID_SOCKET
  /\ Running =>
       /\ \A r \in Outcomes : r.fault = "none" =>
            \A c \in ClosedRecords :
              /\ Len(Segs(r, c.tuple)) = 0
              /\ Has(r.tab, c.tuple) => Forwarding(Conn(r, c.tuple)) = Forwarding(c)
       /\ \A c \in ClosedRecords :
            \A fc \in ForwardCases(world, conn_table, c.tuple) :
              \A r \in {zdtun_forward_full(EngineState(fc.in), c.tuple, fc.pkt, fc.no_ack)} :
                r.rv = 0 /\ Same(r)

\* the records that hold an open socket
Open == {c \in Records : c.sock # INVALID_SOCKET}

\* C20: every record whose socket is not the sentinel has that socket in
\* all_fds, the set zdtun_fds returns as the read set; a socket that flow
\* control took out of the set while data read from the server is queued is
\* set aside
C20_Registered == \A c \in Open : ~c.pending.set => c.sock \in all_fds

\* C21: while the engine runs, a TCP connection with a non-empty pending
\* queue does not have its socket in the readable set all_fds, and a TCP
\* socket in all_fds belongs to a connection whose pending queue is empty
C21_PendingNotReadable ==
  Running =>
    \A c \in Records :
      ipproto(c.tuple) = "TCP" =>
        /\ c.pending.set => c.sock \notin all_fds
        /\ c.sock \in all_fds => ~c.pending.set

\* the status changes of the specification's state machine
SpecEdges(t) ==
  {<<"NEW", "CONNECTED">>, <<"CONNECTED", "CLOSED">>}
  \cup (IF ipproto(t) = "TCP"
        THEN {<<"NEW", "CONNECTING">>, <<"CONNECTING", "CONNECTED">>,
              <<"CONNECTING", "CLOSED">>}
        ELSE {})
\* the dispatch calls in which t's socket is readable and at end-of-file
EofOutcomes(t) ==
  {zdtun_handle_fd(EngineState(in)) :
     in \in {x \in DispatchCases(world, conn_table) : x.ev[t].k = "eof"}}
\* every status an operation leaves differs from the one it found only
\* through the assignments recorded in edges
EdgesExplain(r) ==
  \A t \in TuplesOf(world) :
    (Has(r.tab, t) /\ Conn(r, t).status # Pre(t).status) =>
       \E e \in r.edges : e.t = t /\ e.to = Conn(r, t).status

\* C22 as stated: every status assignment follows one of NEW->CONNECTING (TCP
\* only), NEW->CONNECTED, CONNECTING->CONNECTED, CONNECTING->CLOSED and
\* CONNECTED->CLOSED, so that CLOSED is absorbing and UDP and ICMP records are
\* never CONNECTING; and a dispatch call that finds a CONNECTED connection's
\* socket at end-of-file leaves the status CONNECTED
C22_Original ==
  Running =>
    /\ \A r \in Outcomes :
         /\ \A e \in r.edges : <<e.from, e.to>> \in SpecEdges(e.t)
         /\ r.fault = "none" => EdgesExplain(r)
    /\ \A c \in Records : \A r \in EofOutcomes(c.tuple) :
         (r.fault = "none" /\ c.status = "CONNECTED") =>
            Conn(r, c.tuple).status = "CONNECTED"

\* C22: every status assignment follows one of the five edges of the
\* specification or NEW->CLOSED (a record closed before its first packet was
\* forwarded), so that CLOSED is absorbing and UDP and ICMP records are never
\* CONNECTING; and a dispatch call that finds a connection's socket at
\* end-of-file leaves the status as it was whenever send_client accepts every
\* packet of the call
C22_StatusEdges ==
  Running =>
    /\ \A r \in Outcomes :
         /\ \A e \in r.edges :
              <<e.from, e.to>> \in SpecEdges(e.t) \cup {<<"NEW", "CLOSED">>}
         /\ r.fault = "none" => EdgesExplain(r)
    /\ \A c \in Records : \A r \in EofOutcomes(c.tuple) :
         (r.fault = "none" /\ r.in.sc = AllOk) =>
            Conn(r, c.tuple).status = c.status

\* a state with a NEW record that an operation closes, and a CONNECTED TCP
\* connection whose socket can be found at end-of-file
C22_Witness ==
  /\ Running
  /\ \E r \in Outcomes : \E e \in r.edges : e.from = "NEW" /\ e.to = "CLOSED"
  /\ \E c \in Records :
       /\ c.status = "CONNECTED"
       /\ \E r \in EofOutcomes(c.tuple) : r.fault = "none" /\ r.in.sc = AllOk

\* the purges that can run now: idle is the state the idleness pass leaves,
\* r the state the whole purge leaves
PurgeRuns ==
  {[idle |-> PurgeIdle(EngineState([DefaultIn EXCEPT !.sc = sc]), conn_table, 1,
                       clock + skew),
    r |-> zdtun_purge_expired(EngineState([DefaultIn EXCEPT !.sc = sc]), clock + skew)] :
     sc \in CloseResults(conn_table),
     skew \in {0} \cup {timeout(c.tuple) : c \in Records}}
\* the purges whose overload pass runs to its end
OverloadRuns ==
  {x \in PurgeRuns : x.idle.fault = "none" /\ x.idle.nos > MAX_NUM_SOCKETS
                      /\ x.r.fault = "none"}

\* C23: when the overload pass of a purge runs, the records it destroys are
\* the oldest by timestamp (none is younger than a record it keeps), and when
\* it finishes num_open_socks has fallen to NUM_SOCKETS_AFTER_PURGE or the
\* table is empty
C23_OverloadPass ==
  Running =>
    \A x \in OverloadRuns :
      /\ \A i \in 1..Len(x.idle.tab) : \A j \in 1..Len(x.r.tab) :
           ~Has(x.r.tab, x.idle.tab[i].tuple) =>
              x.idle.tab[i].tstamp <= x.r.tab[j].tstamp
      /\ x.r.nos <= NUM_SOCKETS_AFTER_PURGE \/ Len(x.r.tab) = 0

\* the forwards of a packet of tuple t that reach the send toward the server
\* and find it failing
FailingSends(t) ==
  {x \in ForwardCases(world, conn_table, t) : ~x.in.send_ok /\ x.in.sock_ok}

\* C24: when the send toward the server fails during a forward, the call
\* reports failure and the connection is closed: after zdtun_forward and
\* zdtun_send_oob the record is CLOSED with its socket released, after
\* zdtun_easy_forward nothing is returned and the record was closed
C24_FailedSendToServer ==
  Running =>
    /\ \A c \in Records : \A x \in FailingSends(c.tuple) :
         \A r \in {zdtun_forward_full(EngineState(x.in), c.tuple, x.pkt, x.no_ack)} :
           r.fault = "none" =>
             /\ r.rv # 0
             /\ Conn(r, c.tuple).status = "CLOSED"
             /\ Conn(r, c.tuple).sock = INVALID_SOCKET
    /\ \A t \in TuplesOf(world) : \A x \in {y \in FailingSends(t) : ~y.no_ack} :
         \A r \in {zdtun_easy_forward(EngineState(x.in), t, x.pkt)} :
           r.fault = "none" =>
             /\ r.rv = 0
             /\ \E d \in r.removed : d.tuple = t /\ d.nClose >= 1

\* the dispatch calls in which t's socket is at end-of-file and no other
\* socket is ready
EofAlone(t) ==
  {zdtun_handle_fd(EngineState(in)) :
     in \in {x \in DispatchCases(world, conn_table) :
               /\ x.ev[t].k = "eof" /\ x.icmp = "none"
               /\ \A u \in Tuples \ {t} : x.ev[u].k = "none"}}
\* the segments with flag f among those the operation that left r emitted for t
Flagged(r, t, f) == SelectSeq(Segs(r, t), LAMBDA e : f \in e.pkt.flags)

\* C25: a dispatch call that finds a TCP connection's socket at end-of-file
\* emits one FIN+ACK carrying zdtun_seq, advances zdtun_seq by 1, sets
\* fin_ack_sent, releases the socket exactly once (num_open_socks is one
\* less) and keeps the record; a connection with fin_ack_sent set has no
\* socket, and no operation emits a FIN or a data segment for it
C25_EofFinAck ==
  Running =>
    /\ \A c \in Records : \A r \in EofAlone(c.tuple) :
         r.fault = "none" =>
           /\ Len(Flagged(r, c.tuple, "FIN")) = 1
           /\ Flagged(r, c.tuple, "FIN")[1].pkt.flags = {"FIN", "ACK"}
           /\ Flagged(r, c.tuple, "FIN")[1].pkt.seq = c.zdtun_seq
           /\ Has(r.tab, c.tuple)
           /\ Conn(r, c.tuple).zdtun_seq = Add32(c.zdtun_seq, 1)
           /\ Conn(r, c.tuple).fin_ack_sent
           /\ Conn(r, c.tuple).sock = INVALID_SOCKET
           /\ r.nos = num_open_socks - 1
    /\ \A c \in Records : c.fin_ack_sent =>
         /\ c.sock = INVALID_SOCKET
         /\ \A r \in Outcomes :
              Len(Flagged(r, c.tuple, "FIN")) = 0 /\ Len(Flagged(r, c.tuple, "PSH")) = 0

\* the tuples of the records of a table, in table order
TuplesIn(tab) == [i \in 1..Len(tab) |-> tab[i].tuple]
\* the tuples of the records the operation that left r destroyed
Destroyed(r) == {d.tuple : d \in r.removed}

\* C26: zdtun_forward, zdtun_send_oob and zdtun_handle_fd never remove a
\* record: they leave the tuples of the table and the count of connections
\* as they were. A lookup removes records only through its eager purge (the
\* socket ceiling reached), zdtun_easy_forward only through that purge or on
\* its error path (nothing returned), and whatever leaves the table was
\* destroyed by zdtun_destroy_conn
C26_OnlyDestroyRemoves ==
  Running =>
    /\ \A r \in ForwardOutcomes \cup HandleFdOutcomes :
         /\ TuplesIn(r.tab) = TuplesIn(conn_table)
         /\ r.removed = {}
         /\ r.nac = num_active_connections
    /\ \A r \in LookupOutcomes :
         r.removed # {} => num_open_socks >= MAX_NUM_SOCKETS
    /\ \A r \in EasyForwardOutcomes :
         (r.removed # {} /\ r.fault = "none") =>
            r.rv = 0 \/ num_open_socks >= MAX_NUM_SOCKETS
    /\ \A r \in Outcomes : \A c \in Records :
         ~Has(r.tab, c.tuple) => c.tuple \in Destroyed(r)

\* a state in which a forward or a dispatch call closes a connection and
\* leaves its record in the table, and in which a purge removes a record
C26_Witness ==
  /\ Running
  /\ \E r \in ForwardOutcomes \cup HandleFdOutcomes : \E c \in Records :
       /\ c.status # "CLOSED" /\ r.fault = "none"
       /\ Has(r.tab, c.tuple) /\ Conn(r, c.tuple).status = "CLOSED"
  /\ \E r \in PurgeOutcomes : r.removed # {}

\* the bare ACK segments of a client of c that acknowledge a sequence number
\* the engine has reached: at most the bytes sent since the SYN+ACK are in
\* flight
ValidAcks(c) ==
  {p \in AckForwards(c) :
     /\ Sub32(c.zdtun_seq, p.ack).hi = 0
     /\ Sub32(c.zdtun_seq, p.ack).lo < SeqAdvance(c).lo}

\* C27: once a client ACK is processed, window_size does not exceed the
\* smaller of the advertised window and the maximum window, and the bytes in
\* flight (zdtun_seq less the acknowledged number, modulo 2^32) do not exceed
\* it either, also when more bytes were in flight than the window advertised
C27_WindowBound ==
  Running =>
    \A c \in Flowing : \A p \in ValidAcks(c) :
      \A r \in {zdtun_forward_full(EngineState(DefaultIn), c.tuple, p, FALSE)} :
        r.fault = "none" =>
          /\ Conn(r, c.tuple).window_size <= Min(p.win, TCP_WINDOW_SIZE)
          /\ Sub32(c.zdtun_seq, p.ack).lo <= p.win =>
                /\ Sub32(Conn(r, c.tuple).zdtun_seq, p.ack).hi = 0
                /\ Sub32(Conn(r, c.tuple).zdtun_seq, p.ack).lo
                     <= Min(p.win, TCP_WINDOW_SIZE)

\* C28: the first segment emitted for a TCP connection is its SYN+ACK or a
\* RST, and while the record is CONNECTING its server socket is not released,
\* whatever the dispatcher is told about the connecting socket
C28_SynAckFirst ==
  Running =>
    \A r \in Outcomes : r.fault = "none" =>
      \A t \in TcpTuples :
        /\ (Pre(t).last_seq = NoSeq /\ Len(Segs(r, t)) > 0) =>
              Segs(r, t)[1].pkt.flags \in {{"SYN", "ACK"}, {"RST", "ACK"}}
        /\ (Has(r.tab, t) /\ Pre(t).status = "CONNECTING"
               /\ Conn(r, t).status = "CONNECTING") =>
              Conn(r, t).sock = Pre(t).sock

\* the bytes of server data handed to send_client for c so far: the sequence
\* space used, less the SYN and the FIN
Relayed(c) ==
  SeqAdvance(c).lo - c.nSynAck - (IF c.fin_ack_sent THEN 1 ELSE 0)
\* the TCP connections that were set up and not closed
Relaying == {c \in Records : ipproto(c.tuple) = "TCP" /\ c.status = "CONNECTED"}

\* C29: with the dispatcher only told of sockets that zdtun_fds returned as
\* readable, the server-to-client byte stream is preserved: the bytes handed
\* to send_client and the bytes still queued are together the bytes read from
\* the server (none is lost or sent twice), a data segment carries the
\* sequence number INITIAL_SEQ + 1 + the bytes relayed before it, and no
\* dispatch call reads from or closes a connection whose queue is not empty
C29_StreamPreserved ==
  Running =>
    /\ \A c \in Relaying : Relayed(c) + Queued(c) = c.nRead
    /\ \A c \in Relaying : \A r \in HandleFdOutcomes :
         /\ c.pending.set => r.in.ev[c.tuple].k = "none"
         /\ \A j \in 1..Len(Flagged(r, c.tuple, "PSH")) :
              Flagged(r, c.tuple, "PSH")[j].pkt.seq =
                Add32(Add32(INITIAL_SEQ, 1),
                      Relayed(c) + SumSpace(SubSeq(Flagged(r, c.tuple, "PSH"), 1, j - 1)))

\* the forwards of a client segment on the TCP connection c: the segment and
\* the state the call leaves
TcpForwards(c) ==
  {[pkt |-> x.pkt,
    r |-> zdtun_forward_full(EngineState(x.in), c.tuple, x.pkt, x.no_ack)] :
     x \in ForwardCases(world, conn_table, c.tuple)}
\* how far the forward f moved client_seq
Acked(c, f) == Sub32(Conn(f.r, c.tuple).client_seq, c.client_seq)
\* the segment p forwarded once more on the connection as r left it
Again(r, t, p) == zdtun_forward_full(After(r), t, p, FALSE)

\* C30: every client byte the engine acknowledges was written to the server
\* socket: a forward moves client_seq by no more than the bytes it wrote,
\* plus 1 when the segment carries the client's FIN; and the FIN moves
\* client_seq once per connection: forwarding the same FIN segment again
\* leaves client_seq where it was
C30_AckedWasWritten ==
  Running =>
    \A c \in Relaying : \A f \in TcpForwards(c) :
      f.r.fault = "none" =>
        /\ Acked(c, f).hi = 0
        /\ Acked(c, f).lo <= f.r.wr + (IF "FIN" \in f.pkt.flags THEN 1 ELSE 0)
        /\ ("FIN" \in f.pkt.flags /\ f.r.in.sc = AllOk) =>
              \A r2 \in {Again(f.r, c.tuple, f.pkt)} :
                Conn(r2, c.tuple).client_seq = Conn(f.r, c.tuple).client_seq
====
